---- MODULE Spec2Model ----
(***************************************************************************)
(* AboutBlankWatchdog (browser_use/browser/watchdogs/aboutblank_watchdog.py) *)
(* as a state machine.  The watchdog's four event handlers are coroutines  *)
(* on one event loop: a step of the model is the synchronous code between  *)
(* two awaits of one handler invocation, or a step of the environment (the *)
(* event bus delivering an event, the browser removing a closing tab, a    *)
(* page finishing to load).  Every awaited collaborator call may fail.     *)
(***************************************************************************)
EXTENDS Integers, Sequences, FiniteSets, Bags, TLC

\* Bounds of the model.
MaxInitTabs == 2
MaxEvents == 2

TabIds == 1..(MaxInitTabs + MaxEvents)

AboutBlank == "about:blank"
Urls == {AboutBlank, "about:blank#x"}

\* f"Starting Vector AI Agent {browser_session_label}..." for the one session.
LoadingTitle == "Starting Vector AI Agent 0001..."
Titles == {"", LoadingTitle}

VARIABLES
    stopping,   \* self._stopping
    tabs,       \* browser session: target id -> "none" | "open" | "closing" | "gone"
    url,        \* browser session: target id -> current url of the tab
    page,       \* browser: target id -> state of the tab's document
    tasks,      \* event loop: the bag of suspended handler invocations
    navLog,     \* event bus: the NavigateToUrlEvent's dispatched, in order
    shown,      \* event bus: target id -> AboutBlankDVDScreensaverShownEvent's dispatched
    raised,     \* event bus: handler invocations that ended by raising
    delivered,  \* event bus: tab events delivered to the watchdog so far
    last,       \* history: the step taken last (operation, listing length or target, outcome, event url)
    tabs0       \* history: the number of tabs open at the start

vars == <<stopping, tabs, url, page, tasks, navLog, shown, raised, delivered, last, tabs0>>

----------------------------------------------------------------------------
\* The page: what the injected script reads and writes.

NoPage ==
    [flag |-> FALSE, body |-> FALSE, ready |-> "none", title |-> "",
     overlays |-> 0, listeners |-> 0]

\* A loaded document with a body, as the browser creates it.
LoadedPage ==
    [flag |-> FALSE, body |-> TRUE, ready |-> "complete", title |-> "",
     overlays |-> 0, listeners |-> 0]

\* The documents a tab can show before any injection: still loading (no body
\* yet), loaded with a body, or loaded without one; with any title.
NewPages ==
    { [flag |-> FALSE, body |-> b, ready |-> r, title |-> ti,
       overlays |-> 0, listeners |-> 0] :
         <<b, r>> \in {<<FALSE, "loading">>, <<TRUE, "complete">>, <<FALSE, "complete">>},
         ti \in Titles }

RunScript_unguarded(p) ==
    IF ~p.body
      THEN [p EXCEPT !.listeners = IF p.ready = "loading" THEN @ + 1 ELSE @]
      ELSE [p EXCEPT !.flag = TRUE, !.title = LoadingTitle, !.overlays = @ + 1]

\* The script's body: the anonymous function of the injected expression.
RunScript(p) ==
    IF p.flag
      THEN p
      ELSE IF ~p.body
        THEN [p EXCEPT !.flag = FALSE,
                       !.listeners = IF p.ready = "loading" THEN @ + 1 ELSE @]
        ELSE IF p.title = LoadingTitle
          THEN [p EXCEPT !.flag = TRUE]
          ELSE [p EXCEPT !.flag = TRUE, !.title = LoadingTitle, !.overlays = @ + 1]

RECURSIVE RunTimes(_, _)
RunTimes(p, n) == IF n = 0 THEN p ELSE RunTimes(RunScript(p), n - 1)

----------------------------------------------------------------------------
\* The browser session's tab listing.

OpenTabs == {t \in TabIds : tabs[t] \in {"open", "closing"}}

RECURSIVE ListFrom(_)
ListFrom(S) ==
    IF S = {} THEN <<>>
    ELSE LET m == CHOOSE x \in S : \A y \in S : x <= y
         IN  <<[targetId |-> m, url |-> url[m]]>> \o ListFrom(S \ {m})

cdp_get_all_pages == ListFrom(OpenTabs)

UnusedIds == {t \in TabIds : tabs[t] = "none"}
NextId == CHOOSE x \in UnusedIds : \A y \in UnusedIds : x <= y

----------------------------------------------------------------------------
\* Handler invocations.  A suspended invocation is a record: the handler
\* (kind), the await it is suspended at (pc) and its locals; dup is history:
\* the event was delivered before and every earlier invocation had returned
\* without raising.

NewTask(kind, target, pc) ==
    [kind |-> kind, target |-> target, pc |-> pc, navs |-> 0, newTab |-> 0,
     page_targets |-> <<>>, idx |-> 0, dup |-> FALSE]

Step(op, n, ok) == [op |-> op, n |-> n, ok |-> ok, url |-> ""]

Suspended == BagToSet(tasks)
Resume(tk, tk2) == tasks' = (tasks (-) SetToBag({tk})) (+) SetToBag({tk2})
Finish(tk) == tasks' = tasks (-) SetToBag({tk})

NavigateToUrlEvent_sameTab == [url |-> AboutBlank, new_tab |-> FALSE]
NavigateToUrlEvent == [url |-> AboutBlank, new_tab |-> TRUE]

\* The conditions of the code.
IsAboutBlank_prefix(u) == u \in {"about:blank", "about:blank#x"}
IsAboutBlank(u) == u = "about:blank"
ShuttingDown_never == FALSE
ShuttingDown == stopping
IsLastTab_lt(page_targets) == Len(page_targets) < 1
IsLastTab_unlessStopping(page_targets) == ~stopping /\ Len(page_targets) <= 1
IsLastTab(page_targets) == Len(page_targets) <= 1
NoTabsExist_le(page_targets) == Len(page_targets) <= 1
NoTabsExist(page_targets) == Len(page_targets) = 0

\* for page_target in page_targets: the next index at or after `from` whose url
\* passes the test, 0 when the loop is over.
NextTarget(page_targets, from) ==
    LET S == {k \in from..Len(page_targets) : IsAboutBlank(page_targets[k].url)}
    IN  IF S = {} THEN 0 ELSE CHOOSE k \in S : \A j \in S : k <= j

\* _show_dvd_screensaver_on_about_blank_tabs, from the loop's position `from`:
\* the invocation suspends at the next injection, or the broadcast (the last
\* statement of every handler that runs it) returns.
LoopFrom(tk, page_targets, from) ==
    LET k == NextTarget(page_targets, from)
    IN  IF k = 0 THEN Finish(tk)
        ELSE Resume(tk, [tk EXCEPT !.page_targets = page_targets, !.idx = k,
                                   !.pc = "acquire"])

\* The watchdog as constructed (_stopping = False), attached to a session that
\* has n tabs, each showing one of the documents of Pages.
InitWith(Pages) ==
    /\ stopping = FALSE
    /\ \E n \in 1..MaxInitTabs :
         /\ tabs0 = n
         /\ tabs = [t \in TabIds |-> IF t <= n THEN "open" ELSE "none"]
         /\ url \in {f \in [TabIds -> Urls \cup {""}] :
                       \A t \in TabIds : (f[t] = "") <=> (t > n)}
         /\ page \in {f \in [TabIds -> Pages \cup {NoPage}] :
                       \A t \in TabIds : (f[t] = NoPage) <=> (t > n)}
    /\ tasks = EmptyBag
    /\ navLog = <<>>
    /\ shown = [t \in TabIds |-> 0]
    /\ raised = 0
    /\ delivered = 0
    /\ last = Step("init", 0, TRUE)

Init == InitWith({LoadedPage})

----------------------------------------------------------------------------
\* The event bus delivers an event: the handler runs to its first await.

\* A tab event is delivered (the model follows MaxEvents of them; stop events
\* are not counted, a handler that only sets the flag can run any number of
\* times).
Deliver ==
    /\ delivered < MaxEvents
    /\ delivered' = delivered + 1

on_BrowserStopEvent_cancel ==
    /\ stopping' = TRUE
    /\ tasks' = EmptyBag
    /\ last' = Step("on_BrowserStopEvent", 0, TRUE)
    /\ UNCHANGED <<tabs, url, page, navLog, shown, raised, delivered, tabs0>>

on_BrowserStopEvent ==
    /\ stopping' = TRUE
    /\ last' = Step("on_BrowserStopEvent", 0, TRUE)
    /\ UNCHANGED <<tabs, url, page, tasks, navLog, shown, raised, delivered, tabs0>>

on_BrowserStoppedEvent_toggle ==
    /\ stopping' = ~stopping
    /\ last' = Step("on_BrowserStoppedEvent", 0, TRUE)
    /\ UNCHANGED <<tabs, url, page, tasks, navLog, shown, raised, delivered, tabs0>>

on_BrowserStoppedEvent ==
    /\ stopping' = TRUE
    /\ last' = Step("on_BrowserStoppedEvent", 0, TRUE)
    /\ UNCHANGED <<tabs, url, page, tasks, navLog, shown, raised, delivered, tabs0>>

\* The session announces a tab: one that opens now at event_url with document
\* pg (opens), or one announced before (a second delivery).
on_TabCreatedEvent(event_url, opens, pg) ==
    /\ Deliver
    /\ IF opens
         THEN /\ UnusedIds # {}
              /\ tabs' = [tabs EXCEPT ![NextId] = "open"]
              /\ url' = [url EXCEPT ![NextId] = event_url]
              /\ page' = [page EXCEPT ![NextId] = pg]
         ELSE UNCHANGED <<tabs, url, page>>
    /\ IF IsAboutBlank(event_url)
         THEN tasks' = tasks (+) SetToBag({NewTask("TabCreatedEvent", 0, "bc_list")})
         ELSE UNCHANGED tasks
    /\ last' = [Step("on_TabCreatedEvent", 0, opens) EXCEPT !.url = event_url]
    /\ UNCHANGED <<stopping, navLog, shown, raised, tabs0>>

\* The event of tab t (open: the tab is about to close; closing or gone: the
\* event is delivered again).
on_TabClosedEvent(t) ==
    /\ Deliver
    /\ tabs[t] \in {"open", "closing", "gone"}
    /\ tabs' = [tabs EXCEPT ![t] = IF @ = "open" THEN "closing" ELSE @]
    /\ IF ShuttingDown
         THEN UNCHANGED tasks
         ELSE tasks' = tasks (+) SetToBag({[NewTask("TabClosedEvent", t, "list1")
                                             EXCEPT !.dup = (/\ tabs[t] # "open"
                                                             /\ tasks = EmptyBag
                                                             /\ raised = 0)]})
    /\ last' = Step("on_TabClosedEvent", 0, ~ShuttingDown)
    /\ UNCHANGED <<stopping, url, page, navLog, shown, raised, tabs0>>

----------------------------------------------------------------------------
\* The environment.

\* The browser removes a tab whose tab-closed event has fired, at any point
\* after the event.
RemoveTab(t) ==
    /\ tabs[t] = "closing"
    /\ tabs' = [tabs EXCEPT ![t] = "gone"]
    /\ url' = [url EXCEPT ![t] = ""]
    /\ page' = [page EXCEPT ![t] = NoPage]
    /\ last' = Step("RemoveTab", 0, TRUE)
    /\ UNCHANGED <<stopping, tasks, navLog, shown, raised, delivered, tabs0>>

\* The document of tab t finishes parsing: the body exists and the
\* DOMContentLoaded listeners run, each calling the script's function again.
DOMContentLoaded(t) ==
    /\ t \in OpenTabs
    /\ page[t].ready = "loading"
    /\ page' = [page EXCEPT ![t] =
                  RunTimes([@ EXCEPT !.body = TRUE, !.ready = "complete", !.listeners = 0],
                           page[t].listeners)]
    /\ last' = Step("DOMContentLoaded", 0, TRUE)
    /\ UNCHANGED <<stopping, tabs, url, tasks, navLog, shown, raised, delivered, tabs0>>

\* The user or the agent navigates tab t to url u: a new document.
Navigate(t, u) ==
    /\ tabs[t] = "open"
    /\ u # url[t]
    /\ url' = [url EXCEPT ![t] = u]
    /\ page' = [page EXCEPT ![t] = LoadedPage]
    /\ last' = Step("Navigate", t, TRUE)
    /\ UNCHANGED <<stopping, tabs, tasks, navLog, shown, raised, delivered, tabs0>>

----------------------------------------------------------------------------
\* A suspended handler resumes: the awaited call returns (ok) or raises (~ok).

\* The tab a completed NavigateToUrlEvent(url='about:blank', new_tab=True) opens.
OpenNewTab(pg) ==
    /\ UnusedIds # {}
    /\ tabs' = [tabs EXCEPT ![NextId] = "open"]
    /\ url' = [url EXCEPT ![NextId] = AboutBlank]
    /\ page' = [page EXCEPT ![NextId] = pg]

\* on_TabClosedEvent: page_targets = await _cdp_get_all_pages(), then the branch.
\* A failure is not caught: the handler raises.
TabClosed_list(tk, ok) ==
    /\ tk \in Suspended /\ tk.pc = "list1"
    /\ last' = Step("TabClosed_list", IF ok THEN Len(cdp_get_all_pages) ELSE 0, ok)
    /\ IF ~ok
         THEN /\ Finish(tk)
              /\ raised' = raised + 1
              /\ UNCHANGED navLog
         ELSE IF IsLastTab(cdp_get_all_pages)
           THEN /\ Resume(tk, [tk EXCEPT !.pc = "nav1", !.navs = @ + 1])
                /\ navLog' = Append(navLog, NavigateToUrlEvent)
                /\ UNCHANGED raised
           ELSE /\ Resume(tk, [tk EXCEPT !.pc = "ens_list"])
                /\ UNCHANGED <<navLog, raised>>
    /\ UNCHANGED <<stopping, tabs, url, page, shown, delivered, tabs0>>

\* on_TabClosedEvent: await navigate_event, then the broadcast's listing call.
\* A failure is not caught: the handler raises.
TabClosed_nav(tk, ok, pg) ==
    /\ tk \in Suspended /\ tk.pc = "nav1"
    /\ last' = Step("TabClosed_nav", 0, ok)
    /\ IF ok
         THEN /\ OpenNewTab(pg)
              /\ Resume(tk, [tk EXCEPT !.newTab = NextId, !.pc = "bc_list"])
              /\ UNCHANGED raised
         ELSE /\ Finish(tk)
              /\ raised' = raised + 1
              /\ UNCHANGED <<tabs, url, page>>
    /\ UNCHANGED <<stopping, navLog, shown, delivered, tabs0>>

\* _check_and_ensure_about_blank_tab: page_targets = await _cdp_get_all_pages().
\* A failure is caught and logged: the handler returns.
Ensure_list(tk, ok) ==
    /\ tk \in Suspended /\ tk.pc = "ens_list"
    /\ last' = Step("Ensure_list", IF ok THEN Len(cdp_get_all_pages) ELSE 0, ok)
    /\ IF ok /\ NoTabsExist(cdp_get_all_pages)
         THEN /\ Resume(tk, [tk EXCEPT !.pc = "ens_nav", !.navs = @ + 1])
              /\ navLog' = Append(navLog, NavigateToUrlEvent)
         ELSE /\ Finish(tk)
              /\ UNCHANGED navLog
    /\ UNCHANGED <<stopping, tabs, url, page, shown, raised, delivered, tabs0>>

\* _check_and_ensure_about_blank_tab: await navigate_event, then the
\* broadcast's listing call.  A failure is caught and logged.
Ensure_nav(tk, ok, pg) ==
    /\ tk \in Suspended /\ tk.pc = "ens_nav"
    /\ last' = Step("Ensure_nav", 0, ok)
    /\ IF ok
         THEN /\ OpenNewTab(pg)
              /\ Resume(tk, [tk EXCEPT !.newTab = NextId, !.pc = "bc_list"])
         ELSE /\ Finish(tk)
              /\ UNCHANGED <<tabs, url, page>>
    /\ UNCHANGED <<stopping, navLog, shown, raised, delivered, tabs0>>

\* _show_dvd_screensaver_on_about_blank_tabs: page_targets = await
\* _cdp_get_all_pages(), then the loop to its first injection.  A failure is
\* caught and logged.
Broadcast_list(tk, ok) ==
    /\ tk \in Suspended /\ tk.pc = "bc_list"
    /\ last' = Step("Broadcast_list", IF ok THEN Len(cdp_get_all_pages) ELSE 0, ok)
    /\ IF ok
         THEN LoopFrom(tk, cdp_get_all_pages, 1)
         ELSE Finish(tk)
    /\ UNCHANGED <<stopping, tabs, url, page, navLog, shown, raised, delivered, tabs0>>

\* _show_dvd_screensaver_loading_animation_cdp:
\*   temp_session = await get_or_create_cdp_session(target_id, focus=False)
\* (a session can be had only for a target that exists).  A failure is caught
\* and logged, and the loop goes on.
Inject_session(tk, ok) ==
    /\ tk \in Suspended /\ tk.pc = "acquire"
    /\ LET target_id == tk.page_targets[tk.idx].targetId
       IN  /\ last' = Step("Inject_session", target_id, ok)
           /\ IF ok
                THEN /\ target_id \in OpenTabs
                     /\ Resume(tk, [tk EXCEPT !.pc = "evaluate"])
                ELSE LoopFrom(tk, tk.page_targets, tk.idx + 1)
    /\ UNCHANGED <<stopping, tabs, url, page, navLog, shown, raised, delivered, tabs0>>

Inject_evaluate_abort(tk, ok) ==
    /\ tk \in Suspended /\ tk.pc = "evaluate"
    /\ LET target_id == tk.page_targets[tk.idx].targetId
       IN  /\ last' = Step("Inject_evaluate", target_id, ok)
           /\ IF ok
                THEN /\ target_id \in OpenTabs
                     /\ page' = [page EXCEPT ![target_id] = RunScript(@)]
                     /\ shown' = [shown EXCEPT ![target_id] = @ + 1]
                     /\ LoopFrom(tk, tk.page_targets, tk.idx + 1)
                ELSE /\ Finish(tk)
                     /\ UNCHANGED <<page, shown>>
    /\ UNCHANGED <<stopping, tabs, url, navLog, raised, delivered, tabs0>>

Inject_evaluate_silent(tk, ok) ==
    /\ tk \in Suspended /\ tk.pc = "evaluate"
    /\ LET target_id == tk.page_targets[tk.idx].targetId
       IN  /\ last' = Step("Inject_evaluate", target_id, ok)
           /\ IF ok
                THEN /\ target_id \in OpenTabs
                     /\ page' = [page EXCEPT ![target_id] = RunScript(@)]
                     /\ shown' = [shown EXCEPT ![target_id] =
                                     IF RunScript(page[target_id]).overlays > page[target_id].overlays
                                       THEN @ + 1 ELSE @]
                     /\ LoopFrom(tk, tk.page_targets, tk.idx + 1)
                ELSE /\ LoopFrom(tk, tk.page_targets, tk.idx + 1)
                     /\ UNCHANGED <<page, shown>>
    /\ UNCHANGED <<stopping, tabs, url, navLog, raised, delivered, tabs0>>

\* _show_dvd_screensaver_loading_animation_cdp:
\*   await Runtime.evaluate(script); dispatch(AboutBlankDVDScreensaverShownEvent)
\* The script runs in the page.  A failure is caught and logged, and the loop
\* goes on.
Inject_evaluate(tk, ok) ==
    /\ tk \in Suspended /\ tk.pc = "evaluate"
    /\ LET target_id == tk.page_targets[tk.idx].targetId
       IN  /\ last' = Step("Inject_evaluate", target_id, ok)
           /\ IF ok
                THEN /\ target_id \in OpenTabs
                     /\ page' = [page EXCEPT ![target_id] = RunScript(@)]
                     /\ shown' = [shown EXCEPT ![target_id] = @ + 1]
                     /\ LoopFrom(tk, tk.page_targets, tk.idx + 1)
                ELSE /\ LoopFrom(tk, tk.page_targets, tk.idx + 1)
                     /\ UNCHANGED <<page, shown>>
    /\ UNCHANGED <<stopping, tabs, url, navLog, raised, delivered, tabs0>>

----------------------------------------------------------------------------
\* The watchdog's steps, with the documents new tabs show drawn from Pages.

Handlers(Pages) ==
    \/ on_BrowserStopEvent
    \/ on_BrowserStoppedEvent
    \/ \E u \in Urls, opens \in BOOLEAN, pg \in Pages : on_TabCreatedEvent(u, opens, pg)
    \/ \E t \in TabIds : on_TabClosedEvent(t)
    \/ \E tk \in Suspended, ok \in BOOLEAN : TabClosed_list(tk, ok)
    \/ \E tk \in Suspended, ok \in BOOLEAN, pg \in Pages : TabClosed_nav(tk, ok, pg)
    \/ \E tk \in Suspended, ok \in BOOLEAN : Ensure_list(tk, ok)
    \/ \E tk \in Suspended, ok \in BOOLEAN, pg \in Pages : Ensure_nav(tk, ok, pg)
    \/ \E tk \in Suspended, ok \in BOOLEAN : Broadcast_list(tk, ok)
    \/ \E tk \in Suspended, ok \in BOOLEAN : Inject_session(tk, ok)
    \/ \E tk \in Suspended, ok \in BOOLEAN : Inject_evaluate(tk, ok)

\* The watchdog in a session whose tabs show loaded documents; a closing tab
\* is removed at any point after its event.
Next ==
    \/ Handlers({LoadedPage})
    \/ \E t \in TabIds : RemoveTab(t)

Spec == Init /\ [][Next]_vars

\* The injection alone: a session whose tabs show any document and stay open,
\* in which the tabs are announced (tab-created events, also more than once)
\* and documents that are still loading finish loading at any point.
PageNext ==
    \/ \E u \in Urls : on_TabCreatedEvent(u, FALSE, LoadedPage)
    \/ \E tk \in Suspended, ok \in BOOLEAN : Broadcast_list(tk, ok)
    \/ \E tk \in Suspended, ok \in BOOLEAN : Inject_session(tk, ok)
    \/ \E tk \in Suspended, ok \in BOOLEAN : Inject_evaluate(tk, ok)
    \/ \E t \in TabIds : DOMContentLoaded(t)

PageSpec == InitWith(NewPages) /\ [][PageNext]_vars

\* The broadcast in a session whose tabs navigate while it runs.
NavNext ==
    \/ \E u \in Urls : on_TabCreatedEvent(u, FALSE, LoadedPage)
    \/ \E tk \in Suspended, ok \in BOOLEAN : Broadcast_list(tk, ok)
    \/ \E tk \in Suspended, ok \in BOOLEAN : Inject_session(tk, ok)
    \/ \E tk \in Suspended, ok \in BOOLEAN : Inject_evaluate(tk, ok)
    \/ \E t \in TabIds, u \in Urls : Navigate(t, u)

NavSpec == Init /\ [][NavNext]_vars

----------------------------------------------------------------------------
\* Claims.

\* C1 (P1, no browser death): while stopping is false the session never has
\* zero open tabs: a replacement tab is created before the last tab disappears.
C1_NoBrowserDeath == ~stopping => OpenTabs # {}

\* C2 (P5, concurrent close safety): from exactly two open tabs with stopping
\* false, when the only events are the tab-closed events of the two tabs, at
\* most one NavigateToUrlEvent is dispatched over both invocations.
BothTabsClosing ==
    /\ tabs0 = 2 /\ delivered = 2 /\ ~stopping
    /\ \A t \in {1, 2} : tabs[t] \in {"closing", "gone"}
C2_AtMostOneReplacement == BothTabsClosing => Len(navLog) <= 1

\* C3 (P3, stopping suppresses creation): a tab-closed invocation that starts
\* when stopping is true returns at once: it suspends at no call (so lists no
\* tabs), dispatches no NavigateToUrlEvent, injects nothing, and stopping
\* stays true, whatever the number of open tabs.
C3_StoppingSuppresses ==
    [][(stopping /\ last'.op = "on_TabClosedEvent") =>
          /\ stopping'
          /\ ~last'.ok
          /\ UNCHANGED <<tasks, navLog, shown, page, raised>>]_vars

\* C3's case: with stopping true, the event of the only remaining tab was
\* handled and the handler returned at its check.
C3_Witness ==
    /\ stopping /\ last.op = "on_TabClosedEvent" /\ ~last.ok
    /\ Cardinality(OpenTabs) = 1 /\ \E t \in OpenTabs : tabs[t] = "closing"
    /\ navLog = <<>> /\ tasks = EmptyBag

\* C4 (error policy): no handler invocation ends by raising to the event bus,
\* whichever collaborator call fails.
C4_NoHandlerRaises == raised = 0

\* C5 (P4, placeholder-only targeting): a broadcast acquires a handle and
\* submits the script only for a tab whose url in that broadcast's own listing
\* is exactly 'about:blank', and a shown event is emitted only by such a
\* submission; tabs listed with any other url are passed over.
InjectionTarget(tk) == tk.page_targets[tk.idx]
C5_PlaceholderOnly ==
    /\ [](\A tk \in Suspended : tk.pc \in {"acquire", "evaluate"} =>
             /\ tk.idx \in 1..Len(tk.page_targets)
             /\ InjectionTarget(tk).url = "about:blank")
    /\ [][ /\ (last'.op \in {"Inject_session", "Inject_evaluate"}) =>
                 (\E tk \in Suspended :
                    /\ tk.pc = (IF last'.op = "Inject_session" THEN "acquire" ELSE "evaluate")
                    /\ InjectionTarget(tk) = [targetId |-> last'.n, url |-> "about:blank"])
           /\ \A t \in TabIds : (shown'[t] # shown[t]) =>
                 (/\ last' = Step("Inject_evaluate", t, TRUE)
                  /\ shown'[t] = shown[t] + 1) ]_vars

\* C5's case: a script is being submitted by a broadcast whose listing also
\* holds a tab of another url, which the loop passed over.
C5_Witness ==
    \E tk \in Suspended :
       /\ tk.pc = "evaluate"
       /\ \E k \in 1..(tk.idx - 1) : tk.page_targets[k].url = "about:blank#x"

\* C6 (P2, idempotent overlay): on every page, running the script twice in
\* succession leaves the title, the number of overlay elements and the flag
\* as running it once does, and never two overlay elements.
Visible(p) == <<p.title, p.overlays, p.flag>>
C6_IdempotentOverlay ==
    /\ [](\A t \in OpenTabs :
             LET once == RunScript(page[t])
                 twice == RunScript(once)
             IN  /\ Visible(twice) = Visible(once)
                 /\ twice.overlays <= 1)
    /\ [][\A t \in TabIds :
             (last = Step("Inject_evaluate", t, TRUE) /\ last' = last) =>
                Visible(page'[t]) = Visible(page[t]) ]_vars

\* C6's case: the script was submitted twice to the same page (a second
\* tab-created event re-ran the broadcast) and the page holds one overlay.
C6_Witness ==
    \E t \in OpenTabs :
       /\ shown[t] >= 2 /\ page[t].overlays = 1 /\ page[t].title = LoadingTitle

\* C7: stopping is false at the start, changes only in a stop handler, never
\* goes back to false, and is true after any stop handler.
StopHandlers == {"on_BrowserStopEvent", "on_BrowserStoppedEvent"}
C7_StoppingMonotonic ==
    /\ ~stopping
    /\ [][ /\ (stopping' # stopping) => (last'.op \in StopHandlers)
           /\ stopping => stopping'
           /\ (last'.op \in StopHandlers) => stopping' ]_vars

\* C7's case: a stop event handled when stopping was already true.
C7_Witness ==
    stopping /\ delivered = 2 /\ last.op = "on_BrowserStoppedEvent" /\ tasks = EmptyBag
      /\ \A t \in TabIds : tabs[t] \in {"open", "none"}

\* The invocation a step resumed: its record left the bag.
Resumed(tk) == tk \in Suspended /\ CopiesIn(tk, tasks') < CopiesIn(tk, tasks)
SuspendedNext == BagToSet(tasks')
Listed(page_targets, t) == \E k \in 1..Len(page_targets) : page_targets[k].targetId = t

\* C8 (last-tab branch): a tab-closed invocation whose entry listing returns
\* at most one tab dispatches exactly one NavigateToUrlEvent('about:blank',
\* new_tab) and suspends on it; the broadcast starts only when that navigation
\* has completed (a failed navigation ends the invocation without broadcast);
\* the broadcast's listing is the session's tabs at that later moment, so it
\* holds the new tab (as long as that tab is open) and the loop suspends at an
\* injection at or before the new tab's place.
C8_LastTabOrdering ==
    /\ [](\A tk \in Suspended : tk.kind = "TabClosedEvent" =>
             /\ tk.navs <= 1
             /\ (tk.pc = "nav1") => (tk.navs = 1 /\ tk.newTab = 0)
             /\ (tk.pc \in {"bc_list", "acquire", "evaluate"}) =>
                   (tk.navs = 1 /\ tk.newTab # 0)
             /\ (tk.pc \in {"acquire", "evaluate"} /\ tk.newTab \in OpenTabs) =>
                   Listed(tk.page_targets, tk.newTab))
    /\ [][\A tk \in Suspended : Resumed(tk) =>
             /\ (tk.pc = "list1" /\ last'.ok /\ Cardinality(OpenTabs) <= 1) =>
                   /\ navLog' = Append(navLog, [url |-> "about:blank", new_tab |-> TRUE])
                   /\ [tk EXCEPT !.pc = "nav1", !.navs = 1] \in SuspendedNext
                   /\ UNCHANGED <<tabs, shown, page>>
             /\ (tk.pc = "nav1") =>
                   /\ UNCHANGED <<navLog, shown>>
                   /\ IF last'.ok
                        THEN \E t \in OpenTabs' \ OpenTabs :
                                /\ url'[t] = "about:blank"
                                /\ [tk EXCEPT !.pc = "bc_list", !.newTab = t] \in SuspendedNext
                        ELSE /\ BagCardinality(tasks') = BagCardinality(tasks) - 1
                             /\ UNCHANGED tabs
             /\ (tk.pc = "bc_list" /\ last'.ok /\ tk.newTab \in OpenTabs) =>
                   \E k \in 1..Cardinality(OpenTabs), j \in 1..Cardinality(OpenTabs) :
                      /\ j <= k
                      /\ cdp_get_all_pages[k].targetId = tk.newTab
                      /\ [tk EXCEPT !.pc = "acquire", !.idx = j,
                                     !.page_targets = cdp_get_all_pages] \in SuspendedNext ]_vars

\* C8's case (scenario B): the only tab closed, one navigation was dispatched
\* and completed, and the broadcast is submitting the script to the new tab.
C8_Witness ==
    /\ tabs0 = 1 /\ Len(navLog) = 1
    /\ \E tk \in Suspended :
          /\ tk.kind = "TabClosedEvent" /\ tk.pc = "evaluate"
          /\ InjectionTarget(tk).targetId = tk.newTab

\* C9 (other-tabs-remain branch): a tab-closed invocation whose entry listing
\* returns more than one tab dispatches nothing and lists again; if that second
\* listing is non-empty the invocation ends with no NavigateToUrlEvent, no
\* injection and no new tab; only an empty second listing dispatches one
\* NavigateToUrlEvent, after which the broadcast follows.
C9_OtherTabsRemain ==
    /\ [](\A tk \in Suspended :
             (tk.pc = "ens_list" => tk.navs = 0) /\ (tk.pc = "ens_nav" => tk.navs = 1))
    /\ [][\A tk \in Suspended : Resumed(tk) =>
             /\ (tk.pc = "list1" /\ last'.ok /\ Cardinality(OpenTabs) > 1) =>
                   /\ [tk EXCEPT !.pc = "ens_list"] \in SuspendedNext
                   /\ UNCHANGED <<navLog, tabs, shown, page>>
             /\ (tk.pc = "ens_list" /\ last'.ok /\ OpenTabs # {}) =>
                   /\ BagCardinality(tasks') = BagCardinality(tasks) - 1
                   /\ UNCHANGED <<navLog, tabs, url, shown, page, raised>>
             /\ (tk.pc = "ens_list" /\ last'.ok /\ OpenTabs = {}) =>
                   /\ navLog' = Append(navLog, [url |-> "about:blank", new_tab |-> TRUE])
                   /\ [tk EXCEPT !.pc = "ens_nav", !.navs = 1] \in SuspendedNext
             /\ (tk.pc = "ens_nav" /\ last'.ok) =>
                   \E t \in OpenTabs' \ OpenTabs :
                      [tk EXCEPT !.pc = "bc_list", !.newTab = t] \in SuspendedNext ]_vars

\* C9's case (scenario A): of two tabs one closed; the handler's second
\* listing was non-empty and it ended having dispatched nothing.
C9_Witness ==
    /\ tabs0 = 2 /\ delivered = 1
    /\ last.op = "Ensure_list" /\ last.ok /\ last.n >= 1
    /\ navLog = <<>> /\ tasks = EmptyBag /\ Cardinality(OpenTabs \cup {t \in TabIds : tabs[t] = "gone"}) = 2

\* C10 (tab-created): an event whose url is exactly 'about:blank' starts the
\* broadcast, stopping or not, and the broadcast lists all the session's tabs
\* and goes to the first one listed at 'about:blank'; an event with any other
\* url starts nothing and changes nothing.
C10_TabCreated ==
    [][ /\ (last'.op = "on_TabCreatedEvent" /\ last'.url = "about:blank") =>
              /\ tasks' = tasks (+) SetToBag({NewTask("TabCreatedEvent", 0, "bc_list")})
              /\ UNCHANGED <<stopping, navLog, shown, raised>>
        /\ (last'.op = "on_TabCreatedEvent" /\ last'.url # "about:blank") =>
              /\ UNCHANGED <<stopping, tasks, navLog, shown, raised>>
              /\ \A t \in TabIds : tabs[t] # "none" =>
                    (tabs'[t] = tabs[t] /\ url'[t] = url[t] /\ page'[t] = page[t])
        /\ \A tk \in Suspended :
              (Resumed(tk) /\ tk.kind = "TabCreatedEvent" /\ tk.pc = "bc_list" /\ last'.ok) =>
                 LET blank == {k \in 1..Len(cdp_get_all_pages) :
                                 cdp_get_all_pages[k].url = "about:blank"}
                 IN  IF blank = {}
                       THEN BagCardinality(tasks') = BagCardinality(tasks) - 1
                       ELSE \E j \in blank :
                              /\ \A k \in blank : j <= k
                              /\ [tk EXCEPT !.pc = "acquire", !.idx = j,
                                     !.page_targets = cdp_get_all_pages] \in SuspendedNext ]_vars

\* C10's case: with stopping true, the broadcast of a tab-created event is
\* submitting the script to a tab that was open from the start, not the new one.
C10_Witness ==
    /\ stopping
    /\ \E tk \in Suspended :
          /\ tk.kind = "TabCreatedEvent" /\ tk.pc = "evaluate"
          /\ Len(tk.page_targets) >= 2
          /\ InjectionTarget(tk).targetId <= tabs0

\* C11 (idempotence under at-least-once delivery): a tab-closed event that is
\* delivered again, after the invocation for its first delivery has returned
\* and with stopping false, dispatches no NavigateToUrlEvent of its own: two
\* deliveries dispatch as many as one.
C11_RedeliveryAddsNoNavigation ==
    [][\A tk \in Suspended : (Resumed(tk) /\ tk.dup) => navLog' = navLog]_vars

\* C12 (exactly one about:blank tab): with stopping false, once the handlers
\* of the delivered events have returned and the closed tabs are gone, exactly
\* one open tab is at 'about:blank'.
AboutBlankTabs == {t \in OpenTabs : url[t] = "about:blank"}
C12_ExactlyOneAboutBlank ==
    (/\ ~stopping /\ delivered >= 1 /\ tasks = EmptyBag
     /\ \A t \in TabIds : tabs[t] # "closing")
        => Cardinality(AboutBlankTabs) = 1

\* C13 (in-flight operations are not cancelled): an invocation of the
\* tab-closed handler is started only with stopping false, and what a started
\* invocation does when it resumes does not depend on the flag: resumed with
\* stopping true from its entry listing with at most one tab, or from the
\* ensure routine's listing with no tab, it dispatches the NavigateToUrlEvent.
C13_InFlightNotCancelled ==
    /\ [][\A tk \in SuspendedNext :
             (tk.kind = "TabClosedEvent" /\ tk.pc = "list1"
                 /\ CopiesIn(tk, tasks') > CopiesIn(tk, tasks)) =>
                (~stopping /\ last'.op = "on_TabClosedEvent")]_vars
    /\ [][\A tk \in Suspended : (Resumed(tk) /\ stopping /\ last'.ok) =>
             /\ stopping'
             /\ (tk.pc = "list1" /\ Cardinality(OpenTabs) <= 1) =>
                   navLog' = Append(navLog, [url |-> "about:blank", new_tab |-> TRUE])
             /\ (tk.pc = "ens_list" /\ OpenTabs = {}) =>
                   navLog' = Append(navLog, [url |-> "about:blank", new_tab |-> TRUE])]_vars

\* C13's case: the flag was set while an invocation waited in the ensure
\* routine; its listing came back empty and it dispatched the navigation.
C13_Witness ==
    /\ stopping
    /\ last = Step("Ensure_list", 0, TRUE)
    /\ Len(navLog) = 1
    /\ \E tk \in Suspended : tk.pc = "ens_nav" /\ tk.navs = 1

\* C14 (placeholder-only targeting against the live tab): whenever the script
\* is submitted to a tab, the url that tab shows at that moment is exactly
\* 'about:blank'.
C14_LiveUrlAtSubmission ==
    [][\A t \in TabIds :
         (last' = Step("Inject_evaluate", t, TRUE) /\ shown'[t] = shown[t] + 1) =>
            url[t] = "about:blank"]_vars

\* The places of the listing after place `from` that are at 'about:blank'.
LaterPlaceholders(page_targets, from) ==
    {k \in (from + 1)..Len(page_targets) : page_targets[k].url = "about:blank"}

\* C15 (per-tab failure isolation): when the session acquisition or the script
\* submission for one listed tab fails, nothing is raised, nothing is emitted
\* for that tab, and the broadcast goes on to the next 'about:blank' entry of
\* its listing, in listing order, returning only after the last one (as it
\* does after a submission that succeeds); when the listing call itself
\* fails the broadcast returns with no injection and nothing raised.
C15_PerTabFailureIsolation ==
    [][\A tk \in Suspended : Resumed(tk) =>
         /\ (tk.pc \in {"acquire", "evaluate"} /\ ~last'.ok) =>
               UNCHANGED <<raised, shown, page, navLog>>
         /\ ((tk.pc = "acquire" /\ ~last'.ok) \/ tk.pc = "evaluate") =>
               LET later == LaterPlaceholders(tk.page_targets, tk.idx)
               IN  IF later = {}
                     THEN BagCardinality(tasks') = BagCardinality(tasks) - 1
                     ELSE \E j \in later :
                            /\ \A k \in later : j <= k
                            /\ [tk EXCEPT !.pc = "acquire", !.idx = j] \in SuspendedNext
         /\ (tk.pc = "acquire" /\ last'.ok) =>
               [tk EXCEPT !.pc = "evaluate"] \in SuspendedNext
         /\ (tk.pc = "bc_list" /\ ~last'.ok) =>
               /\ UNCHANGED <<raised, shown, page, navLog>>
               /\ BagCardinality(tasks') = BagCardinality(tasks) - 1 ]_vars

\* C15's case: the submission to the first listed placeholder tab failed and
\* the broadcast is at the second one.
C15_Witness ==
    \E tk \in Suspended :
       /\ tk.pc = "acquire" /\ tk.idx = 2
       /\ tk.page_targets[1].url = "about:blank"
       /\ last = Step("Inject_evaluate", tk.page_targets[1].targetId, FALSE)
       /\ shown = [t \in TabIds |-> 0]

\* C16 (navigation shape and provenance): every NavigateToUrlEvent dispatched
\* has url 'about:blank' and new_tab true; one is dispatched only by a
\* tab-closed invocation (started with stopping false) that has dispatched none
\* before, on resuming from its entry listing with at most one tab or from the
\* ensure routine's listing with none; no invocation dispatches two, and
\* tab-created invocations and the stop handlers dispatch none.
C16_NavigationProvenance ==
    /\ [](\A i \in 1..Len(navLog) : navLog[i] = [url |-> "about:blank", new_tab |-> TRUE])
    /\ [](\A tk \in Suspended :
             tk.navs <= 1 /\ (tk.kind = "TabCreatedEvent" => tk.navs = 0))
    /\ [][\A tk \in SuspendedNext :
             (tk.kind = "TabClosedEvent" /\ tk \notin Suspended) =>
                (tk.pc = "list1" => ~stopping)]_vars
    /\ [][(navLog' # navLog) =>
             /\ Len(navLog') = Len(navLog) + 1
             /\ SubSeq(navLog', 1, Len(navLog)) = navLog
             /\ last'.op \in {"TabClosed_list", "Ensure_list"}
             /\ \E tk \in Suspended :
                   /\ Resumed(tk) /\ tk.kind = "TabClosedEvent" /\ tk.navs = 0 /\ last'.ok
                   /\ \/ tk.pc = "list1" /\ Cardinality(OpenTabs) <= 1
                      \/ tk.pc = "ens_list" /\ OpenTabs = {}
                   /\ \E tk2 \in SuspendedNext :
                         /\ tk2 = [tk EXCEPT !.pc = tk2.pc, !.navs = 1]
                         /\ tk2.pc \in {"nav1", "ens_nav"} ]_vars

\* C16's case: with stopping false, the ensure routine of a session whose two
\* tabs both closed found no tab and dispatched the navigation.
C16_Witness ==
    /\ ~stopping /\ tabs0 = 2
    /\ last = Step("Ensure_list", 0, TRUE)
    /\ navLog = <<[url |-> "about:blank", new_tab |-> TRUE]>>

\* C17 (at most one overlay per page): in a session whose pages are in any
\* document state, are injected any number of times and finish loading at any
\* point, no page ever holds more than one overlay, and a step that adds an
\* overlay adds exactly one to a page whose flag was unset and whose title was
\* not the loading title, and leaves the title set and the flag set.
C17_AtMostOneOverlay ==
    /\ [](\A t \in TabIds : page[t].overlays <= 1)
    /\ [][\A t \in TabIds :
             (page'[t].overlays # page[t].overlays) =>
                /\ page'[t].overlays = page[t].overlays + 1
                /\ page'[t].title = LoadingTitle /\ page'[t].flag
                /\ page[t].title # LoadingTitle /\ ~page[t].flag]_vars

\* C17's case: a page was injected twice while its body was missing, both
\* retries fired when the document became ready, and it holds one overlay.
C17_Witness ==
    /\ tabs0 = 1 /\ shown[1] = 2
    /\ last.op = "DOMContentLoaded"
    /\ page[1].overlays = 1 /\ page[1].flag

\* C18 (placeholder-shown event): the step in which a script submission
\* returns without error dispatches exactly one AboutBlankDVDScreensaverShownEvent,
\* for that injection's target id, whatever the script did in the page; no
\* other step dispatches one (not a failed acquisition, not a failed
\* submission).
C18_ShownOncePerSubmission ==
    [][ /\ \A tk \in Suspended :
              (Resumed(tk) /\ tk.pc = "evaluate" /\ last'.ok) =>
                 shown' = [shown EXCEPT ![InjectionTarget(tk).targetId] = @ + 1]
        /\ (shown' # shown) =>
              \E tk \in Suspended : Resumed(tk) /\ tk.pc = "evaluate" /\ last'.ok ]_vars

\* C18's case: the event was dispatched for a submission whose script did
\* nothing visible because the page had no body.
C18_Witness ==
    \E t \in OpenTabs :
       /\ last = Step("Inject_evaluate", t, TRUE)
       /\ shown[t] = 1
       /\ ~page[t].body /\ page[t].overlays = 0 /\ ~page[t].flag

\* C19 (body-missing retry): when the script is run by a successful submission
\* on a page that has no body, it installs no overlay, leaves the flag unset
\* and registers a retry for the document becoming ready, whatever the
\* document's readyState.
C19_BodyMissingRetry ==
    [][\A t \in TabIds :
         (/\ last' = Step("Inject_evaluate", t, TRUE)
          /\ shown'[t] = shown[t] + 1
          /\ ~page[t].body) =>
            /\ page'[t].overlays = page[t].overlays
            /\ ~page'[t].flag
            /\ page'[t].listeners = page[t].listeners + 1]_vars

\* C20 (frame of the stop handlers): a step of on_BrowserStopEvent or of
\* on_BrowserStoppedEvent leaves the tabs, their urls and pages, the suspended
\* invocations, and everything dispatched or raised so far as they were.
C20_StopHandlersFrame ==
    [][(last'.op \in StopHandlers) =>
          UNCHANGED <<tabs, url, page, tasks, navLog, shown, raised>>]_vars

\* C20's case: a stop event handled while an invocation is suspended, after a
\* navigation was dispatched and an overlay installed.
C20_Witness ==
    /\ last.op = "on_BrowserStopEvent"
    /\ tasks # EmptyBag
    /\ Len(navLog) = 1
    /\ \E t \in OpenTabs : page[t].overlays = 1 /\ shown[t] >= 1

====
